---- MODULE Spec2Model ----
(***************************************************************************)
(* DocHub core backend: PDF merge and split over lopdf object tables, and  *)
(* the page-range parser.                                                  *)
(*                                                                         *)
(*   Spec          merge_pdfs / split_pdf as step machines over a file     *)
(*                 system (core-backend/src/processors)                    *)
(*   SpecParse     PageRange::from_str / PageRangeParser over strings      *)
(*   SpecValidate  MergeRequest::validate over requests and file states    *)
(*   SpecJson      MergeRequest::from_value over JSON objects              *)
(*   SpecMeta      PdfValidator::extract_metadata over Info dictionaries   *)
(*   SpecRewrite   update_object_references over destination tables        *)
(*   SpecLoop      process_commands_loop over input streams (main.rs)      *)
(*   SpecRoundTrip to_value / from_value of MergeRequest, handle_merge     *)
(*   SpecLegacy    merge_pdfs of the legacy backend (src/backend)          *)
(***************************************************************************)
EXTENDS Integers, Sequences, FiniteSets, TLC

(***************************************************************************)
(* Bounds                                                                  *)
(***************************************************************************)
MaxPages == 2
MaxFiles == 3
MaxRanges == 2
MaxLen == 3
MaxOrderLen == 3

(***************************************************************************)
(* Generic helpers                                                         *)
(***************************************************************************)
Range(s) == {s[i] : i \in 1..Len(s)}

SeqsUpTo(S, n) == UNION {[1..k -> S] : k \in 0..n}

InjSeqsUpTo(S, n) == {s \in SeqsUpTo(S, n) : \A i, j \in 1..Len(s) : i # j => s[i] # s[j]}

RECURSIVE Concat(_)
Concat(ss) == IF ss = <<>> THEN <<>> ELSE Head(ss) \o Concat(Tail(ss))

RECURSIVE Sum(_)
Sum(s) == IF s = <<>> THEN 0 ELSE Head(s) + Sum(Tail(s))

(***************************************************************************)
(* Errors (utils/error_handling.rs).  code is AppError::error_code(), kind *)
(* the inner enum variant, detail a tag for the message.                   *)
(***************************************************************************)
ErrValidation(msg) == [ok |-> FALSE, code |-> "VALIDATION_ERROR", kind |-> "InvalidInput", detail |-> msg]
ErrFileTooLarge == [ok |-> FALSE, code |-> "VALIDATION_ERROR", kind |-> "FileTooLarge", detail |-> "size"]
ErrIoRead == [ok |-> FALSE, code |-> "IO_ERROR", kind |-> "ReadFailed", detail |-> "metadata"]
ErrCorruptedPdf(path) == [ok |-> FALSE, code |-> "PDF_ERROR", kind |-> "CorruptedPdf", detail |-> "load",
                          path |-> path]
ErrPageNotFound == [ok |-> FALSE, code |-> "PDF_ERROR", kind |-> "PageNotFound", detail |-> "page"]
ErrProcessingFailed == [ok |-> FALSE, code |-> "PDF_ERROR", kind |-> "ProcessingFailed", detail |-> "save"]
ErrPanic == [ok |-> FALSE, code |-> "PANIC", kind |-> "Overflow", detail |-> "usize"]
Ok == [ok |-> TRUE, code |-> "OK", kind |-> "Ok", detail |-> "ok"]

(***************************************************************************)
(* lopdf documents.  An ObjectId is <<number, generation>>; an object      *)
(* table is a function over a finite set of ObjectIds; the trailer is a    *)
(* function from a subset of {"Root","Info"} to ObjectIds.  An object is   *)
(*   [kind, type, refs, body]                                              *)
(* kind "Dictionary": type is /Type, refs the References nested in the     *)
(* dictionary in order (Kids for Pages, Pages for Catalog, Parent and      *)
(* links for Page), body a label standing for the remaining content;       *)
(* kind "Reference": refs is the one target.                               *)
(***************************************************************************)
Oid(n) == <<n, 0>>

Dict(t, refs, body) == [kind |-> "Dictionary", type |-> t, refs |-> refs, body |-> body]

Ref(id) == [kind |-> "Reference", type |-> "", refs |-> <<id>>, body |-> <<>>]

EmptyTable == [id \in {} |-> Ref(Oid(0))]

Insert(objects, id, obj) ==
  [x \in DOMAIN objects \cup {id} |-> IF x = id THEN obj ELSE objects[x]]

TrailerSet(trailer, key, id) ==
  [k \in DOMAIN trailer \cup {key} |-> IF k = key THEN id ELSE trailer[k]]

\* Document::with_version("1.5")
NewDocument == [objects |-> EmptyTable, trailer |-> [k \in {} |-> Oid(0)], max_id |-> 0]

\* Document::get_pages: trailer Root -> Catalog -> Pages -> Kids, keeping the
\* kids that are dictionaries of type Page; page numbers are 1..Len.
GetPages(d) ==
  IF "Root" \notin DOMAIN d.trailer THEN <<>>
  ELSE LET cat == d.trailer["Root"] IN
    IF cat \notin DOMAIN d.objects \/ d.objects[cat].kind # "Dictionary"
       \/ d.objects[cat].refs = <<>> THEN <<>>
    ELSE LET pid == d.objects[cat].refs[1] IN
      IF pid \notin DOMAIN d.objects \/ d.objects[pid].kind # "Dictionary" THEN <<>>
      ELSE SelectSeq(d.objects[pid].refs,
                     LAMBDA k : k \in DOMAIN d.objects
                                /\ d.objects[k].kind = "Dictionary"
                                /\ d.objects[k].type = "Page")

\* Document::traverse_objects: the ids reachable from the trailer.
RECURSIVE Reach(_, _)
Reach(objects, seen) ==
  LET next == seen \cup UNION {Range(objects[i].refs) : i \in seen \cap DOMAIN objects}
  IN IF next = seen THEN seen ELSE Reach(objects, next)

\* Document::prune_objects: drop every object not reachable from the trailer.
PruneObjects(d) ==
  LET refs == Reach(d.objects, {d.trailer[k] : k \in DOMAIN d.trailer})
  IN [d EXCEPT !.objects = [id \in DOMAIN d.objects \cap refs |-> d.objects[id]]]

(***************************************************************************)
(* Source documents of the model: catalog 1, page tree 2, pages 3..n+2,    *)
(* Info n+3.  link says what a page dictionary references: its Parent, the *)
(* next sibling page, or nothing.                                          *)
(***************************************************************************)
Links == {"parent", "sibling", "none"}

PageId(i) == Oid(i + 2)

MkDoc(name, n, link) ==
  LET page(i) == Dict("Page",
                      CASE link = "parent" -> <<Oid(2)>>
                        [] link = "sibling" -> IF n > 1 THEN <<PageId((i % n) + 1)>> ELSE <<>>
                        [] OTHER -> <<>>,
                      <<name, i>>)
      ids == {Oid(k) : k \in 1..(n + 3)}
  IN [objects |-> [id \in ids |->
                     IF id = Oid(1) THEN Dict("Catalog", <<Oid(2)>>, <<>>)
                     ELSE IF id = Oid(2) THEN Dict("Pages", [i \in 1..n |-> PageId(i)], <<>>)
                     ELSE IF id = Oid(n + 3) THEN Dict("Info", <<>>, <<name>>)
                     ELSE page(id[1] - 2)],
      trailer |-> [k \in {"Root", "Info"} |-> IF k = "Root" THEN Oid(1) ELSE Oid(n + 3)],
      max_id |-> n + 3]

(***************************************************************************)
(* File system.  A path is a sequence of components, directory first; a    *)
(* file is [kind, doc, big]: kind "pdf" holds a serialized document,       *)
(* "garbage" bytes lopdf cannot parse; big says the size exceeds           *)
(* FileHandlerConfig.max_file_size.                                        *)
(***************************************************************************)
PdfFile(d, big) == [kind |-> "pdf", doc |-> d, big |-> big]

Garbage == [kind |-> "garbage", doc |-> NewDocument, big |-> FALSE]

InPath(name) == <<"in", name>>

Parent(path) == path[1]

(***************************************************************************)
(* FileHandler (api/file_handlers.rs)                                      *)
(***************************************************************************)
\* FileHandler::validate_path: empty path and ".." components are rejected.
validate_path(path) ==
  IF path = <<>> THEN ErrValidation("path_empty")
  ELSE IF ".." \in Range(path) THEN ErrValidation("path_traversal")
  ELSE Ok

\* FileHandler::validate_file: path, then metadata, then is_file, then size.
validate_file(files, path) ==
  IF ~validate_path(path).ok THEN validate_path(path)
  ELSE IF path \notin DOMAIN files THEN ErrIoRead
  ELSE IF files[path].kind = "dir" THEN ErrValidation("not_a_file")
  ELSE IF files[path].big THEN ErrFileTooLarge
  ELSE Ok

(***************************************************************************)
(* MergeRequest::validate (processors/pdf_merger.rs)                       *)
(***************************************************************************)
NoOrder == [some |-> FALSE, order |-> <<>>]

SomeOrder(o) == [some |-> TRUE, order |-> o]

RECURSIVE validate_files(_, _)
validate_files(files, list) ==
  IF list = <<>> THEN Ok
  ELSE IF ~validate_file(files, Head(list)).ok THEN validate_file(files, Head(list))
  ELSE validate_files(files, Tail(list))

\* Step 4 of validate.  files.len() - 1 is a usize subtraction: with an empty
\* list it panics (debug build) before any index is compared.
validate_page_order(nfiles, page_order) ==
  IF ~page_order.some THEN Ok
  ELSE IF Len(page_order.order) # nfiles THEN ErrValidation("order_length")
  ELSE IF nfiles = 0 THEN ErrPanic
  ELSE IF \E i \in 1..Len(page_order.order) : page_order.order[i] > nfiles - 1
    THEN ErrValidation("order_index")
  ELSE IF Cardinality(Range(page_order.order)) # Len(page_order.order)
    THEN ErrValidation("order_duplicate")
  ELSE Ok

MergeRequest_validate(files, r) ==
  IF r.files = <<>> THEN ErrValidation("empty_file_list")
  ELSE IF ~validate_files(files, r.files).ok THEN validate_files(files, r.files)
  ELSE validate_page_order(Len(r.files), r.page_order)

\* files_to_merge_of with page_order ignored
files_to_merge_request_order(r) == r.files

\* merge_pdfs step 3: the files in processed order.
files_to_merge_of(r) ==
  IF r.page_order.some
    THEN [i \in 1..Len(r.page_order.order) |-> r.files[r.page_order.order[i] + 1]]
    ELSE r.files

\* update_object_references: only objects that are themselves a Reference are
\* looked at; a mapped target is replaced.
update_object_references(objects, id_mapping) ==
  [id \in DOMAIN objects |->
     IF objects[id].kind = "Reference" /\ objects[id].refs[1] \in DOMAIN id_mapping
       THEN Ref(id_mapping[objects[id].refs[1]])
       ELSE objects[id]]

\* The tables the pass can leave.  It reads each candidate back with
\* Document::get_object: in lopdf versions where get_object is the plain table
\* lookup the Reference is seen and replaced; in versions where get_object
\* dereferences what it finds, no Reference is ever seen and nothing changes.
update_object_references_outcomes(objects, id_mapping) ==
  {update_object_references(objects, id_mapping), objects}

\* optimize_document
optimize_document(d) == PruneObjects(d)

\* LoadOutcomes with an unreadable file loaded as a document without pages
LoadOutcomes_skip_unreadable(files, path) ==
  IF path \notin DOMAIN files THEN {"error"} ELSE {"ok"}

\* Document::load of a file: bytes that do not parse fail; a serialized
\* document without a trailer Root has no catalog, and lopdf either refuses it
\* or loads it with an empty page list, depending on its version.
LoadOutcomes(files, path) ==
  IF path \notin DOMAIN files \/ files[path].kind # "pdf" THEN {"error"}
  ELSE IF "Root" \notin DOMAIN files[path].doc.trailer THEN {"error", "ok"}
  ELSE {"ok"}

(***************************************************************************)
(* PageRange and PageRangeParser (processors/pdf_splitter.rs).  A string   *)
(* is a sequence of one-character strings.                                 *)
(***************************************************************************)
\* u32::MAX.  The 32-bit width is scaled down to 8 bits: TLC's integers do
\* not hold 2^32, and with 8 bits the strings of the model reach the overflow.
U32Max == 255

Digits == {"0", "1", "2", "3", "4", "5", "6", "7", "8", "9"}

DigitVal(c) ==
  CASE c = "0" -> 0 [] c = "1" -> 1 [] c = "2" -> 2 [] c = "3" -> 3 [] c = "4" -> 4
    [] c = "5" -> 5 [] c = "6" -> 6 [] c = "7" -> 7 [] c = "8" -> 8 [] c = "9" -> 9

RECURSIVE DecValue(_)
DecValue(s) == IF s = <<>> THEN 0 ELSE 10 * DecValue(SubSeq(s, 1, Len(s) - 1)) + DigitVal(s[Len(s)])

\* str::parse::<u32>: an optional leading '+', then one or more decimal
\* digits, the value at most u32::MAX.  [ok, val]
parse_u32(s) ==
  LET body == IF s # <<>> /\ s[1] = "+" THEN Tail(s) ELSE s
  IN IF body = <<>> \/ \E i \in 1..Len(body) : body[i] \notin Digits
       THEN [ok |-> FALSE, val |-> 0]
     ELSE IF DecValue(body) > U32Max THEN [ok |-> FALSE, val |-> 0]
     ELSE [ok |-> TRUE, val |-> DecValue(body)]

\* str::split(sep): the pieces between the separators, empty pieces included.
RECURSIVE split(_, _)
split(s, sep) ==
  IF \A i \in 1..Len(s) : s[i] # sep THEN <<s>>
  ELSE LET k == CHOOSE i \in 1..Len(s) : s[i] = sep /\ \A j \in 1..(i - 1) : s[j] # sep
       IN <<SubSeq(s, 1, k - 1)>> \o split(SubSeq(s, k + 1, Len(s)), sep)

\* str::trim
RECURSIVE trim(_)
trim(s) ==
  IF s = <<>> THEN s
  ELSE IF s[1] = " " THEN trim(Tail(s))
  ELSE IF s[Len(s)] = " " THEN trim(SubSeq(s, 1, Len(s) - 1))
  ELSE s

RangeOk(rs) == [ok |-> TRUE, code |-> "OK", kind |-> "Ok", detail |-> "ok", ranges |-> rs]

RangeErr(msg) == [ok |-> FALSE, code |-> "VALIDATION_ERROR", kind |-> "InvalidInput",
                  detail |-> msg, ranges |-> <<>>]

\* PageRange::new
PageRange_new(start, end) ==
  IF ~(start >= 1) THEN RangeErr("page_lt_1")
  ELSE IF ~(end >= start) THEN RangeErr("end_lt_start")
  ELSE RangeOk(<<[start |-> start, end |-> end]>>)

\* PageRange::from_str
PageRange_from_str(s) ==
  LET parts == split(s, "-")
  IN IF Len(parts) = 1 THEN
       IF ~parse_u32(parts[1]).ok THEN RangeErr("invalid_page_number")
       ELSE PageRange_new(parse_u32(parts[1]).val, parse_u32(parts[1]).val)
     ELSE IF Len(parts) = 2 THEN
       IF ~parse_u32(parts[1]).ok THEN RangeErr("invalid_start_page")
       ELSE IF ~parse_u32(parts[2]).ok THEN RangeErr("invalid_end_page")
       ELSE PageRange_new(parse_u32(parts[1]).val, parse_u32(parts[2]).val)
     ELSE RangeErr("invalid_format")

\* sort_by_start with the sort left out
sort_by_start_unsorted(rs) == rs

\* slice::sort_by_key(|r| r.start): a stable sort, here by insertion.
RECURSIVE sort_by_start(_)
sort_by_start(rs) ==
  IF rs = <<>> THEN <<>>
  ELSE LET rest == sort_by_start(SubSeq(rs, 1, Len(rs) - 1))
           x == rs[Len(rs)]
           k == Cardinality({i \in 1..Len(rest) : rest[i].start <= x.start})
       IN SubSeq(rest, 1, k) \o <<x>> \o SubSeq(rest, k + 1, Len(rest))

\* validate_no_overlaps handing back its sorted copy
validate_no_overlaps_sorted(ranges) ==
  LET sorted_ranges == sort_by_start(ranges)
  IN IF \E i \in 1..(Len(sorted_ranges) - 1) : sorted_ranges[i + 1].start <= sorted_ranges[i].end
       THEN RangeErr("overlap")
       ELSE RangeOk(sorted_ranges)

\* PageRangeParser::validate_no_overlaps
validate_no_overlaps(ranges) ==
  LET sorted_ranges == sort_by_start(ranges)
  IN IF \E i \in 1..(Len(sorted_ranges) - 1) : sorted_ranges[i + 1].start <= sorted_ranges[i].end
       THEN RangeErr("overlap")
       ELSE RangeOk(ranges)

\* The loop of parse_ranges: the first token that fails ends the parse.
RECURSIVE parse_parts(_)
parse_parts(parts) ==
  IF parts = <<>> THEN RangeOk(<<>>)
  ELSE LET r == PageRange_from_str(Head(parts))
       IN IF ~r.ok THEN r
          ELSE LET rest == parse_parts(Tail(parts))
               IN IF ~rest.ok THEN rest ELSE RangeOk(r.ranges \o rest.ranges)

\* The tokens of parse_ranges: split on ',', trimmed, empty ones dropped.
comma_parts(input) ==
  SelectSeq([i \in 1..Len(split(input, ",")) |-> trim(split(input, ",")[i])],
            LAMBDA t : t # <<>>)

\* PageRangeParser::parse_ranges
parse_ranges(input) ==
  LET parts == comma_parts(input)
  IN IF parts = <<>> THEN RangeErr("no_ranges")
     ELSE IF ~parse_parts(parts).ok THEN parse_parts(parts)
     ELSE validate_no_overlaps(parse_parts(parts).ranges)

\* `as u32` on the u64 taken from a JSON number
as_u32(n) == n % (U32Max + 1)

\* One item of the array form: <<start, end>>, <<page>>, or anything else
\* (a sequence of another length stands for a value of the wrong shape; a
\* negative number for a JSON number as_u64 refuses).
parse_json_item(item) ==
  IF Len(item) = 2 THEN
    IF item[1] < 0 THEN RangeErr("invalid_start_page")
    ELSE IF item[2] < 0 THEN RangeErr("invalid_end_page")
    ELSE PageRange_new(as_u32(item[1]), as_u32(item[2]))
  ELSE IF Len(item) = 1 THEN
    IF item[1] < 0 THEN RangeErr("invalid_page_number")
    ELSE PageRange_new(as_u32(item[1]), as_u32(item[1]))
  ELSE RangeErr("invalid_range_format")

RECURSIVE parse_json_items(_)
parse_json_items(arr) ==
  IF arr = <<>> THEN RangeOk(<<>>)
  ELSE LET r == parse_json_item(Head(arr))
       IN IF ~r.ok THEN r
          ELSE LET rest == parse_json_items(Tail(arr))
               IN IF ~rest.ok THEN rest ELSE RangeOk(r.ranges \o rest.ranges)

\* PageRangeParser::parse_from_json, array form
parse_from_json_array(arr) ==
  IF ~parse_json_items(arr).ok THEN parse_json_items(arr)
  ELSE validate_no_overlaps(parse_json_items(arr).ranges)

(***************************************************************************)
(* State of the processors                                                 *)
(***************************************************************************)
VARIABLES
  fs,                \* path -> file
  dirs,              \* existing directories
  pc,                \* position inside merge_pdfs / split_pdf, or "idle"
  req,               \* the request being served (kept after it returns)
  result,            \* what the last call returned
  done,              \* number of calls that have returned
  files_to_merge,    \* merge_pdfs
  file_index,        \* perform_merge loop
  doc,               \* the source document loaded last
  page_pos,          \* next page number of the inner loop
  merged_doc,        \* perform_merge
  total_pages,       \* perform_merge
  max_object_id,     \* perform_merge / perform_split
  object_id_mapping, \* perform_merge
  range_index,       \* perform_split loop
  split_doc,         \* perform_split
  object_id_map,     \* perform_split
  results,           \* perform_split
  copied,            \* history: the pages copied into the current destination
  saved,             \* history: the documents serialized, in order
  stdin,             \* main.rs: the lines of the input stream
  cursor,            \* main.rs: number of lines taken from the stream
  stdout,            \* main.rs: the response lines written
  command            \* main.rs: the command being processed

vars == <<fs, dirs, pc, req, result, done, files_to_merge, file_index, doc, page_pos,
          merged_doc, total_pages, max_object_id, object_id_mapping, range_index,
          split_doc, object_id_map, results, copied, saved, stdin, cursor, stdout, command>>

ipcState == <<stdin, cursor, stdout, command>>

NoCommand == [action |-> "", data |-> "", id |-> "", returned |-> ""]

mergeLocals == <<files_to_merge, file_index, merged_doc, total_pages, object_id_mapping>>

splitLocals == <<range_index, split_doc, object_id_map, results>>

EmptyMap == [id \in {} |-> Oid(0)]

NoRequest == [op |-> "none"]

NoResult == [ok |-> FALSE, code |-> "NONE", kind |-> "None", detail |-> "none"]

InputPaths == {InPath("a"), InPath("b"), InPath("c")}

OutDir == "out"

MergedPath == <<OutDir, "merged">>

\* The file systems a call starts from.
Worlds ==
  { [p \in {InPath("a"), InPath("b")} \cup (IF hasC THEN {InPath("c")} ELSE {}) |->
       IF p = InPath("a") THEN PdfFile(MkDoc("a", na, "sibling"), FALSE)
       ELSE IF p = InPath("b") THEN b
       ELSE c]
    : na \in 1..MaxPages,
      b \in {Garbage} \cup {PdfFile(MkDoc("b", n, "parent"), FALSE) : n \in 1..MaxPages},
      hasC \in BOOLEAN,
      c \in {PdfFile(MkDoc("c", 1, "none"), big) : big \in BOOLEAN} }

Init ==
  /\ fs \in Worlds
  /\ dirs \in {{"in"}, {"in", OutDir}}
  /\ pc = "idle"
  /\ req = NoRequest
  /\ result = NoResult
  /\ done = 0
  /\ files_to_merge = <<>>
  /\ file_index = 0
  /\ doc = NewDocument
  /\ page_pos = 0
  /\ merged_doc = NewDocument
  /\ total_pages = 0
  /\ max_object_id = 0
  /\ object_id_mapping = EmptyMap
  /\ range_index = 0
  /\ split_doc = NewDocument
  /\ object_id_map = EmptyMap
  /\ results = <<>>
  /\ copied = <<>>
  /\ saved = <<>>
  /\ stdin = <<>>
  /\ cursor = 0
  /\ stdout = <<>>
  /\ command = NoCommand

\* A call returns: the locals of the call are dropped.
Return(r) ==
  /\ result' = r
  /\ pc' = "idle"
  /\ done' = done + 1
  /\ files_to_merge' = <<>>
  /\ file_index' = 0
  /\ doc' = NewDocument
  /\ page_pos' = 0
  /\ merged_doc' = NewDocument
  /\ total_pages' = 0
  /\ max_object_id' = 0
  /\ object_id_mapping' = EmptyMap
  /\ range_index' = 0
  /\ split_doc' = NewDocument
  /\ object_id_map' = EmptyMap
  /\ results' = <<>>
  /\ copied' = <<>>

(***************************************************************************)
(* PdfMerger::merge_pdfs                                                   *)
(***************************************************************************)
Perms(n) == {o \in [1..n -> 0..(n - 1)] : \A i, j \in 1..n : i # j => o[i] # o[j]}

\* page_order values offered with a list of n files: none, every permutation,
\* and the order naming index n throughout.
OrdersFor(n) == {NoOrder} \cup {SomeOrder(o) : o \in Perms(n) \cup {[i \in 1..n |-> n]}}

\* The file lists offered: lists of distinct input files for a first call, the
\* files a split has just produced for a call that follows the split.
MergeFileLists ==
  IF done = 0 THEN InjSeqsUpTo(InputPaths, MaxFiles)
  ELSE IF result.ok /\ req.op = "split" THEN {result.output_files}
  ELSE {}

MaxCalls == 2

\* The output paths offered: a file of its own, or the path of a source.
MergeOutputs == {MergedPath, InPath("a")}

StartMerge ==
  /\ pc = "idle"
  /\ done < MaxCalls
  /\ \E files \in MergeFileLists, pm \in BOOLEAN, os \in BOOLEAN, out \in MergeOutputs :
       \E po \in OrdersFor(Len(files)) :
         req' = [op |-> "merge", files |-> files, output_path |-> out,
                 page_order |-> po, preserve_metadata |-> pm, optimize_size |-> os]
  /\ pc' = "m_validate"
  /\ UNCHANGED <<fs, dirs, result, done, doc, page_pos, max_object_id, copied, saved,
                 mergeLocals, splitLocals, ipcState>>

\* merge_pdfs steps 1-3 and the locals of perform_merge.
MergeValidate ==
  /\ pc = "m_validate"
  /\ LET v == MergeRequest_validate(fs, req)
         parent == Parent(req.output_path)
     IN IF ~v.ok THEN Return(v) /\ UNCHANGED <<fs, dirs, req, ipcState, saved>>
        ELSE IF parent \notin dirs /\ ~validate_path(<<parent>>).ok
          THEN Return(validate_path(<<parent>>)) /\ UNCHANGED <<fs, dirs, req, ipcState, saved>>
        ELSE /\ dirs' = dirs \cup {parent}
             /\ files_to_merge' = files_to_merge_of(req)
             /\ merged_doc' = NewDocument
             /\ total_pages' = 0
             /\ max_object_id' = 1
             /\ object_id_mapping' = EmptyMap
             /\ file_index' = 0
             /\ pc' = "m_load"
             /\ UNCHANGED <<fs, req, ipcState, result, done, doc, page_pos, copied, saved, splitLocals>>

\* AfterFile with the file loop left after its first iteration
AfterFile_stop_after_first(i) == "m_rewrite"

\* Leaving the page loop of one file: the next file, or the rewrite pass.
AfterFile(i) == IF i + 1 < Len(files_to_merge) THEN "m_load" ELSE "m_rewrite"

\* perform_merge: Document::load of files[file_index] and the Info copy.
MergeLoad ==
  /\ pc = "m_load"
  /\ \E out \in LoadOutcomes(fs, files_to_merge[file_index + 1]) :
       IF out = "error" THEN Return(ErrCorruptedPdf(files_to_merge[file_index + 1]))
                             /\ UNCHANGED <<fs, dirs, req, ipcState, saved>>
       ELSE LET d == fs[files_to_merge[file_index + 1]].doc IN
            /\ doc' = d
            /\ merged_doc' = IF file_index = 0 /\ req.preserve_metadata /\ "Info" \in DOMAIN d.trailer
                               THEN [merged_doc EXCEPT !.trailer = TrailerSet(@, "Info", d.trailer["Info"])]
                               ELSE merged_doc
            /\ IF GetPages(d) = <<>>
                 THEN /\ pc' = AfterFile(file_index)
                      /\ file_index' = file_index + 1
                      /\ page_pos' = 0
                 ELSE /\ pc' = "m_copy"
                      /\ file_index' = file_index
                      /\ page_pos' = 1
            /\ UNCHANGED <<fs, dirs, req, ipcState, result, done, files_to_merge, total_pages,
                           max_object_id, object_id_mapping, copied, saved, splitLocals>>

\* MergeCopyPage with the page inserted under its source ObjectId
MergeCopyPage_source_ids ==
  /\ pc = "m_copy"
  /\ LET pages == GetPages(doc)
         page_id == pages[page_pos]
         new_page_id == page_id
     IN IF page_id \notin DOMAIN doc.objects
          THEN Return(ErrPageNotFound) /\ UNCHANGED <<fs, dirs, req, ipcState, saved>>
          ELSE /\ total_pages' = total_pages + 1
               /\ max_object_id' = max_object_id + 1
               /\ merged_doc' = [merged_doc EXCEPT !.objects = Insert(@, new_page_id, doc.objects[page_id])]
               /\ object_id_mapping' = Insert(object_id_mapping, page_id, new_page_id)
               /\ copied' = Append(copied, [file |-> file_index, path |-> files_to_merge[file_index + 1],
                                            page |-> page_pos, src |-> page_id, dst |-> new_page_id,
                                            refs |-> doc.objects[page_id].refs,
                                            body |-> doc.objects[page_id].body])
               /\ IF page_pos < Len(pages)
                    THEN /\ page_pos' = page_pos + 1
                         /\ pc' = "m_copy"
                         /\ file_index' = file_index
                    ELSE /\ page_pos' = 0
                         /\ pc' = AfterFile(file_index)
                         /\ file_index' = file_index + 1
               /\ UNCHANGED <<fs, dirs, req, ipcState, result, done, doc, files_to_merge, saved, splitLocals>>

\* perform_merge: one iteration of the page loop.
MergeCopyPage ==
  /\ pc = "m_copy"
  /\ LET pages == GetPages(doc)
         page_id == pages[page_pos]
         new_page_id == <<max_object_id + 1, 0>>
     IN IF page_id \notin DOMAIN doc.objects
          THEN Return(ErrPageNotFound) /\ UNCHANGED <<fs, dirs, req, ipcState, saved>>
          ELSE /\ total_pages' = total_pages + 1
               /\ max_object_id' = max_object_id + 1
               /\ merged_doc' = [merged_doc EXCEPT !.objects = Insert(@, new_page_id, doc.objects[page_id])]
               /\ object_id_mapping' = Insert(object_id_mapping, page_id, new_page_id)
               /\ copied' = Append(copied, [file |-> file_index, path |-> files_to_merge[file_index + 1],
                                            page |-> page_pos, src |-> page_id, dst |-> new_page_id,
                                            refs |-> doc.objects[page_id].refs,
                                            body |-> doc.objects[page_id].body])
               /\ IF page_pos < Len(pages)
                    THEN /\ page_pos' = page_pos + 1
                         /\ pc' = "m_copy"
                         /\ file_index' = file_index
                    ELSE /\ page_pos' = 0
                         /\ pc' = AfterFile(file_index)
                         /\ file_index' = file_index + 1
               /\ UNCHANGED <<fs, dirs, req, ipcState, result, done, doc, files_to_merge, saved, splitLocals>>

\* perform_merge: the final update_object_references.
MergeRewrite ==
  /\ pc = "m_rewrite"
  /\ \E t \in update_object_references_outcomes(merged_doc.objects, object_id_mapping) :
       merged_doc' = [merged_doc EXCEPT !.objects = t]
  /\ pc' = IF req.optimize_size THEN "m_optimize" ELSE "m_save"
  /\ UNCHANGED <<fs, dirs, req, ipcState, result, done, doc, page_pos, files_to_merge, file_index,
                 total_pages, max_object_id, object_id_mapping, copied, saved, splitLocals>>

\* merge_pdfs step 5
MergeOptimize ==
  /\ pc = "m_optimize"
  /\ merged_doc' = optimize_document(merged_doc)
  /\ pc' = "m_save"
  /\ UNCHANGED <<fs, dirs, req, ipcState, result, done, doc, page_pos, files_to_merge, file_index,
                 total_pages, max_object_id, object_id_mapping, copied, saved, splitLocals>>

\* merge_pdfs step 6: Document::save either writes the file or fails, with or
\* without a partly written file left behind.
MergeSave ==
  /\ pc = "m_save"
  /\ \/ \E big \in BOOLEAN :
          /\ fs' = Insert(fs, req.output_path, PdfFile(merged_doc, big))
          /\ saved' = Append(saved, [path |-> req.output_path, doc |-> merged_doc,
                                     copied |-> copied, op |-> "merge"])
          /\ pc' = "m_check"
          /\ UNCHANGED <<dirs, req, ipcState, result, done, doc, page_pos, files_to_merge, file_index,
                         merged_doc, total_pages, max_object_id, object_id_mapping, copied,
                         splitLocals>>
     \/ /\ fs' \in {fs, Insert(fs, req.output_path, Garbage)}
        /\ Return(ErrProcessingFailed)
        /\ UNCHANGED <<dirs, req, ipcState, saved>>

\* merge_pdfs step 7 and the MergeResult.
MergeCheck ==
  /\ pc = "m_check"
  /\ LET v == validate_file(fs, req.output_path)
     IN IF ~v.ok THEN Return(v)
        ELSE Return([ok |-> TRUE, code |-> "OK", kind |-> "MergeResult", detail |-> "ok",
                     output_path |-> req.output_path, total_pages |-> total_pages,
                     files_merged |-> Len(files_to_merge),
                     metadata_preserved |-> req.preserve_metadata])
  /\ UNCHANGED <<fs, dirs, req, ipcState, saved>>

(***************************************************************************)
(* PdfSplitter::split_pdf                                                  *)
(***************************************************************************)
\* PageRange::to_string and the placeholders of generate_output_path, as
\* pieces of the file name.
range_to_string(r) ==
  IF r.start = r.end THEN <<ToString(r.start)>>
  ELSE <<ToString(r.start), "-", ToString(r.end)>>

render(token, r, index) ==
  CASE token = "{index}" -> <<ToString(index + 1)>>
    [] token = "{range}" -> range_to_string(r.page_ranges[index + 1])
    [] token = "{start}" -> <<ToString(r.page_ranges[index + 1].start)>>
    [] token = "{end}" -> <<ToString(r.page_ranges[index + 1].end)>>
    [] OTHER -> <<token>>

\* SplitRequest::generate_output_path (index is 0-based)
generate_output_path(r, index) ==
  <<r.output_dir>> \o Concat([i \in 1..Len(r.naming_pattern) |-> render(r.naming_pattern[i], r, index)])

\* SplitRequest::validate with only the start of a range compared to the total
SplitRequest_validate_start_only(files, r, total) ==
  IF ~validate_file(files, r.file_path).ok THEN validate_file(files, r.file_path)
  ELSE IF r.page_ranges = <<>> THEN ErrValidation("no_ranges")
  ELSE IF \E i \in 1..Len(r.page_ranges) : r.page_ranges[i].start > total
    THEN ErrValidation("start_exceeds_total")
  ELSE Ok

\* SplitRequest::validate
SplitRequest_validate(files, r, total) ==
  IF ~validate_file(files, r.file_path).ok THEN validate_file(files, r.file_path)
  ELSE IF r.page_ranges = <<>> THEN ErrValidation("no_ranges")
  ELSE IF \E i \in 1..Len(r.page_ranges) :
            r.page_ranges[i].start > total \/ r.page_ranges[i].end > total
    THEN LET i == CHOOSE k \in 1..Len(r.page_ranges) :
                    /\ r.page_ranges[k].start > total \/ r.page_ranges[k].end > total
                    /\ \A j \in 1..(k - 1) : r.page_ranges[j].start <= total /\ r.page_ranges[j].end <= total
         IN IF r.page_ranges[i].start > total THEN ErrValidation("start_exceeds_total")
            ELSE ErrValidation("end_exceeds_total")
  ELSE Ok

DefaultPattern == <<"split_", "{index}">>

PageRanges == {[start |-> a, end |-> b] : a \in 1..(MaxPages + 1), b \in 1..(MaxPages + 1)}

\* The range lists SplitRequest::from_value lets through.
RangeLists == {rs \in SeqsUpTo({r \in PageRanges : r.start <= r.end}, MaxRanges) :
                 validate_no_overlaps(rs).ok}

\* The output directories and naming patterns offered: the default pattern
\* in a directory of its own, and a pattern without placeholders in the
\* directory of the sources.
SplitTargets ==
  {[output_dir |-> OutDir, naming_pattern |-> DefaultPattern],
   [output_dir |-> "in", naming_pattern |-> <<"a">>]}

StartSplit ==
  /\ pc = "idle"
  /\ done = 0
  /\ \E f \in InputPaths, rs \in RangeLists, pm \in BOOLEAN, cd \in BOOLEAN,
        t \in SplitTargets :
       req' = [op |-> "split", file_path |-> f, page_ranges |-> rs,
               output_dir |-> t.output_dir, preserve_metadata |-> pm,
               naming_pattern |-> t.naming_pattern, create_output_dir |-> cd]
  /\ pc' = "s_load"
  /\ UNCHANGED <<fs, dirs, result, done, doc, page_pos, max_object_id, copied, saved,
                 mergeLocals, splitLocals, ipcState>>

\* split_pdf step 1: load_document
SplitLoad ==
  /\ pc = "s_load"
  /\ \E out \in LoadOutcomes(fs, req.file_path) :
       IF out = "error" THEN Return(ErrCorruptedPdf(req.file_path)) /\ UNCHANGED <<fs, dirs, req, ipcState, saved>>
       ELSE /\ doc' = fs[req.file_path].doc
            /\ pc' = "s_validate"
            /\ UNCHANGED <<fs, dirs, req, ipcState, result, done, page_pos, max_object_id, copied, saved,
                           mergeLocals, splitLocals>>

\* split_pdf steps 2-3 and the locals of perform_split.
SplitValidate ==
  /\ pc = "s_validate"
  /\ LET v == SplitRequest_validate(fs, req, Len(GetPages(doc)))
     IN IF ~v.ok THEN Return(v) /\ UNCHANGED <<fs, dirs, req, ipcState, saved>>
        ELSE IF req.create_output_dir /\ req.output_dir \notin dirs /\ ~validate_path(<<req.output_dir>>).ok
          THEN Return(validate_path(<<req.output_dir>>)) /\ UNCHANGED <<fs, dirs, req, ipcState, saved>>
        ELSE /\ dirs' = IF req.create_output_dir THEN dirs \cup {req.output_dir} ELSE dirs
             /\ results' = <<>>
             /\ max_object_id' = doc.max_id + 1
             /\ range_index' = 0
             /\ pc' = "s_range"
             /\ UNCHANGED <<fs, req, ipcState, result, done, doc, page_pos, split_doc, object_id_map,
                            copied, saved, mergeLocals>>

\* SplitBeginRange with the page loop started at page 1 instead of range.start
SplitBeginRange_from_first_page ==
  /\ pc = "s_range"
  /\ split_doc' = IF req.preserve_metadata /\ "Info" \in DOMAIN doc.trailer
                    THEN [NewDocument EXCEPT !.trailer = TrailerSet(@, "Info", doc.trailer["Info"])]
                    ELSE NewDocument
  /\ object_id_map' = EmptyMap
  /\ copied' = <<>>
  /\ page_pos' = 1
  /\ pc' = "s_copy"
  /\ UNCHANGED <<fs, dirs, req, ipcState, result, done, doc, max_object_id, range_index, results, saved,
                 mergeLocals>>

\* perform_split: the head of one iteration of the range loop.
SplitBeginRange ==
  /\ pc = "s_range"
  /\ split_doc' = IF req.preserve_metadata /\ "Info" \in DOMAIN doc.trailer
                    THEN [NewDocument EXCEPT !.trailer = TrailerSet(@, "Info", doc.trailer["Info"])]
                    ELSE NewDocument
  /\ object_id_map' = EmptyMap
  /\ copied' = <<>>
  /\ page_pos' = req.page_ranges[range_index + 1].start
  /\ pc' = "s_copy"
  /\ UNCHANGED <<fs, dirs, req, ipcState, result, done, doc, max_object_id, range_index, results, saved,
                 mergeLocals>>

\* perform_split: one iteration of the page loop over range.expand().
SplitCopyPage ==
  /\ pc = "s_copy"
  /\ LET pages == GetPages(doc)
         new_page_id == <<max_object_id, 0>>
     IN IF page_pos \notin 1..Len(pages) \/ pages[page_pos] \notin DOMAIN doc.objects
          THEN Return(ErrPageNotFound) /\ UNCHANGED <<fs, dirs, req, ipcState, saved>>
          ELSE /\ max_object_id' = max_object_id + 1
               /\ object_id_map' = Insert(object_id_map, pages[page_pos], new_page_id)
               /\ split_doc' = [split_doc EXCEPT !.objects = Insert(@, new_page_id, doc.objects[pages[page_pos]])]
               /\ copied' = Append(copied, [file |-> range_index, path |-> req.file_path,
                                            page |-> page_pos, src |-> pages[page_pos],
                                            dst |-> new_page_id,
                                            refs |-> doc.objects[pages[page_pos]].refs,
                                            body |-> doc.objects[pages[page_pos]].body])
               /\ IF page_pos < req.page_ranges[range_index + 1].end
                    THEN page_pos' = page_pos + 1 /\ pc' = "s_copy"
                    ELSE page_pos' = 0 /\ pc' = "s_rewrite"
               /\ UNCHANGED <<fs, dirs, req, ipcState, result, done, doc, range_index, results, saved,
                              mergeLocals>>

\* perform_split: update_object_references for the range.
SplitRewrite ==
  /\ pc = "s_rewrite"
  /\ \E t \in update_object_references_outcomes(split_doc.objects, object_id_map) :
       split_doc' = [split_doc EXCEPT !.objects = t]
  /\ pc' = "s_save"
  /\ UNCHANGED <<fs, dirs, req, ipcState, result, done, doc, page_pos, max_object_id, range_index,
                 object_id_map, results, copied, saved, mergeLocals>>

\* perform_split: save_split_document; without the output directory the
\* file cannot be created.
SplitSave ==
  /\ pc = "s_save"
  /\ LET output_path == generate_output_path(req, range_index)
     IN \/ /\ Parent(output_path) \in dirs
           /\ \E big \in BOOLEAN :
                /\ fs' = Insert(fs, output_path, PdfFile(split_doc, big))
                /\ saved' = Append(saved, [path |-> output_path, doc |-> split_doc,
                                           copied |-> copied, op |-> "split"])
           /\ pc' = "s_stat"
           /\ UNCHANGED <<dirs, req, ipcState, result, done, doc, page_pos, max_object_id, range_index,
                          split_doc, object_id_map, results, copied, mergeLocals>>
        \/ /\ fs' \in IF Parent(output_path) \in dirs
                       THEN {fs, Insert(fs, output_path, Garbage)}
                       ELSE {fs}
           /\ Return(ErrProcessingFailed)
           /\ UNCHANGED <<dirs, req, ipcState, saved>>

\* perform_split: the RangeStat of the range and the end of the iteration;
\* after the last range split_pdf builds the SplitResult.
SplitStat ==
  /\ pc = "s_stat"
  /\ LET output_path == generate_output_path(req, range_index)
         v == validate_file(fs, output_path)
         range == req.page_ranges[range_index + 1]
         stats == Append(results, [range |-> range, output_file |-> output_path,
                                   page_count |-> range.end - range.start + 1])
     IN IF ~v.ok THEN Return(v) /\ UNCHANGED <<fs, dirs, req, ipcState, saved>>
        ELSE IF range_index + 1 < Len(req.page_ranges)
          THEN /\ results' = stats
               /\ range_index' = range_index + 1
               /\ pc' = "s_range"
               /\ UNCHANGED <<fs, dirs, req, ipcState, result, done, doc, page_pos, max_object_id,
                              split_doc, object_id_map, copied, saved, mergeLocals>>
        ELSE /\ Return([ok |-> TRUE, code |-> "OK", kind |-> "SplitResult", detail |-> "ok",
                        output_files |-> [i \in 1..Len(stats) |-> stats[i].output_file],
                        total_pages_processed |-> Sum([i \in 1..Len(stats) |-> stats[i].page_count]),
                        files_created |-> Len(stats),
                        metadata_preserved |-> req.preserve_metadata,
                        range_stats |-> stats])
             /\ UNCHANGED <<fs, dirs, req, ipcState, saved>>

Next ==
  \/ StartMerge
  \/ MergeValidate
  \/ MergeLoad
  \/ MergeCopyPage
  \/ MergeRewrite
  \/ MergeOptimize
  \/ MergeSave
  \/ MergeCheck
  \/ StartSplit
  \/ SplitLoad
  \/ SplitValidate
  \/ SplitBeginRange
  \/ SplitCopyPage
  \/ SplitRewrite
  \/ SplitSave
  \/ SplitStat

Spec == Init /\ [][Next]_vars

(***************************************************************************)
(* SpecParse: the parser applied to bounded inputs                         *)
(***************************************************************************)
Alphabet == {"0", "1", "2", "3", "5", "-", ",", " ", "+", "a"}

ExampleTexts ==
  { <<"1", "-", "3", ",", "5", ",", "7", "-", "1", "0">>,
    <<"1", "-", "3", ",", "2", "-", "5">>,
    <<"3", "-", "5", ",", "1", "-", "3">>,
    <<"5", "-", "7", ",", "1", "-", "3">>,
    <<"1", "-", "3", ",", "4", "-", "5">>,
    <<"+", "1", "-", "+", "3">>,
    <<" ", "2", "-", "3", " ", ",", ",", "1", " ">>,
    <<"1", " ", "-", " ", "3">>,
    <<"1", "-", "2", "-", "3">>,
    <<"2", "5", "5", ",", "2", "5", "6">>,
    <<"0", "-", "3">>,
    <<"5", "-", "2">> }

Texts == SeqsUpTo(Alphabet, MaxLen) \cup ExampleTexts

\* Items of the array form: pairs and single pages over small numbers, one
\* number above u32::MAX, one negative number, and a value of another shape.
JsonNumbers == (0..(MaxPages + 2)) \cup {U32Max + 2, -1}

JsonItems == {<<a, b>> : a \in JsonNumbers, b \in JsonNumbers} \cup {<<a>> : a \in JsonNumbers}
             \cup {<<>>}

ValidPairs == {it \in (1..(MaxPages + 2)) \X (1..(MaxPages + 2)) : it[1] <= it[2]}

JsonArrays == SeqsUpTo(ValidPairs, MaxRanges + 1) \cup SeqsUpTo(JsonItems, 1)

ParseInputs == {[op |-> "parse_ranges", text |-> t, items |-> <<>>] : t \in Texts}
               \cup {[op |-> "parse_from_json", text |-> <<>>, items |-> a] : a \in JsonArrays}

Idle ==
  /\ pc = "idle"
  /\ result = NoResult
  /\ done = 0
  /\ files_to_merge = <<>>
  /\ file_index = 0
  /\ doc = NewDocument
  /\ page_pos = 0
  /\ merged_doc = NewDocument
  /\ total_pages = 0
  /\ max_object_id = 0
  /\ object_id_mapping = EmptyMap
  /\ range_index = 0
  /\ split_doc = NewDocument
  /\ object_id_map = EmptyMap
  /\ results = <<>>
  /\ copied = <<>>
  /\ saved = <<>>
  /\ stdin = <<>>
  /\ cursor = 0
  /\ stdout = <<>>
  /\ command = NoCommand

InitParse ==
  /\ Idle
  /\ fs = [p \in {} |-> Garbage]
  /\ dirs = {}
  /\ req \in ParseInputs

pureFrame == <<fs, dirs, pc, req, ipcState, files_to_merge, file_index, doc, page_pos, merged_doc,
               total_pages, max_object_id, object_id_mapping, range_index, split_doc,
               object_id_map, results, copied, saved>>

\* PageRangeParser::parse_ranges on the text of the request
ParseRanges ==
  /\ done = 0
  /\ req.op = "parse_ranges"
  /\ result' = parse_ranges(req.text)
  /\ done' = 1
  /\ UNCHANGED pureFrame

\* PageRangeParser::parse_from_json on the array of the request
ParseFromJson ==
  /\ done = 0
  /\ req.op = "parse_from_json"
  /\ result' = parse_from_json_array(req.items)
  /\ done' = 1
  /\ UNCHANGED pureFrame

NextParse == ParseRanges \/ ParseFromJson

SpecParse == InitParse /\ [][NextParse]_vars

(***************************************************************************)
(* SpecValidate: MergeRequest::validate applied to bounded requests        *)
(***************************************************************************)
PageOrders == {NoOrder} \cup {SomeOrder(o) : o \in SeqsUpTo(0..MaxFiles, MaxOrderLen)}

InitValidate ==
  /\ Idle
  /\ fs \in Worlds
  /\ dirs = {"in"}
  /\ \E files \in InjSeqsUpTo(InputPaths, MaxFiles), po \in PageOrders :
       req = [op |-> "validate", files |-> files, output_path |-> MergedPath,
              page_order |-> po, preserve_metadata |-> TRUE, optimize_size |-> FALSE]

\* MergeRequest::validate on the request
ValidateMerge ==
  /\ done = 0
  /\ req.op = "validate"
  /\ result' = MergeRequest_validate(fs, req)
  /\ done' = 1
  /\ UNCHANGED pureFrame

NextValidate == ValidateMerge

SpecValidate == InitValidate /\ [][NextValidate]_vars

(***************************************************************************)
(* Properties                                                              *)
(***************************************************************************)
IsPrefix(s, t) == Len(s) <= Len(t) /\ SubSeq(t, 1, Len(s)) = s

\* The pages of destination d whose source references were all copied (from
\* the same source document) hold no reference outside d's table.
NoDangling(d, cp) ==
  \A i \in 1..Len(cp) :
    (/\ cp[i].dst \in DOMAIN d.objects
     /\ Range(cp[i].refs) \subseteq {cp[j].src : j \in {k \in 1..Len(cp) : cp[k].file = cp[i].file}})
    => Range(d.objects[cp[i].dst].refs) \subseteq DOMAIN d.objects

\* C1: once the copy and the reference rewrite of a merge or of a split range
\* have finished, no copied page whose referenced objects were all copied
\* holds a Reference to an ObjectId absent from the destination table.
C1_NoDanglingReference ==
  /\ (pc \in {"m_optimize", "m_save"} /\ ~(pc = "m_save" /\ req.optimize_size))
       => NoDangling(merged_doc, copied)
  /\ pc = "s_save" => NoDangling(split_doc, copied)

PageCount(f) == IF f \in DOMAIN fs /\ fs[f].kind = "pdf" THEN Len(GetPages(fs[f].doc)) ELSE 0

PageObjects(d) == {id \in DOMAIN d.objects : d.objects[id].kind = "Dictionary" /\ d.objects[id].type = "Page"}

\* C2: a merge without page_order that succeeds reports, and saves, as many
\* pages as its source documents have together.
C2_TotalPagesIsSum ==
  (pc = "idle" /\ req.op = "merge" /\ result.ok /\ ~req.page_order.some)
    => /\ result.total_pages = Sum([i \in 1..Len(req.files) |-> PageCount(req.files[i])])
       /\ Cardinality(PageObjects(saved[Len(saved)].doc)) = result.total_pages

\* The files of the request in processed order, and the pages expected in the
\* destination: file after file, each file's pages by ascending page number.
ProcessedFiles ==
  [i \in 1..Len(req.files) |->
     IF req.page_order.some THEN req.files[req.page_order.order[i] + 1] ELSE req.files[i]]

PagesOfFile(f) ==
  [k \in 1..PageCount(f) |->
     [path |-> f, page |-> k, body |-> fs[f].doc.objects[GetPages(fs[f].doc)[k]].body]]

ExpectedCopyOrder == Concat([i \in 1..Len(ProcessedFiles) |-> PagesOfFile(ProcessedFiles[i])])

\* The pages in the destination of the merge, by destination object number.
CopyOrder ==
  [i \in 1..Len(copied) |->
     [path |-> copied[i].path, page |-> copied[i].page,
      body |-> merged_doc.objects[<<i + 1, 0>>].body]]

\* C3: a merge copies the pages file after file in processed order
\* (files[page_order[0]], files[page_order[1]], ... or request order) and by
\* ascending page number inside a file; the destination object numbers follow
\* the copy order.
C3_MergeCopyOrder ==
  /\ pc \in {"m_load", "m_copy", "m_rewrite"}
       => /\ \A i \in 1..Len(copied) : copied[i].dst = <<i + 1, 0>>
          /\ IsPrefix(CopyOrder, ExpectedCopyOrder)
  /\ pc = "m_rewrite" => CopyOrder = ExpectedCopyOrder

C3_Witness ==
  /\ pc = "m_rewrite"
  /\ req.page_order.some
  /\ req.page_order.order = <<2, 0, 1>>
  /\ \A i \in 1..3 : PageCount(req.files[i]) >= 1
  /\ copied[1].path = req.files[3]
  /\ copied[Len(copied)].path = req.files[2]

\* C4: every saved destination has a trailer Root naming a Catalog whose
\* Pages names a Pages dictionary whose Kids are the copied pages in copy
\* order.
C4_SavedHasPageTree ==
  \A i \in 1..Len(saved) :
    LET d == saved[i].doc IN
    /\ "Root" \in DOMAIN d.trailer
    /\ d.trailer["Root"] \in DOMAIN d.objects
    /\ d.objects[d.trailer["Root"]].type = "Catalog"
    /\ d.objects[d.trailer["Root"]].refs # <<>>
    /\ d.objects[d.trailer["Root"]].refs[1] \in DOMAIN d.objects
    /\ d.objects[d.objects[d.trailer["Root"]].refs[1]].type = "Pages"
    /\ d.objects[d.objects[d.trailer["Root"]].refs[1]].refs
         = [k \in 1..Len(saved[i].copied) |-> saved[i].copied[k].dst]

\* The split that came first saved one file per range; its page numbers in
\* save order, and the page count of its source.
SplitSaves == SelectSeq(saved, LAMBDA e : e.op = "split")

SplitPageNumbers ==
  Concat([i \in 1..Len(SplitSaves) |->
            [j \in 1..Len(SplitSaves[i].copied) |-> SplitSaves[i].copied[j].page]])

SplitSourcePath == SplitSaves[1].copied[1].path

\* C5: a split whose ranges partition 1..N in ascending order, followed by
\* the merge of the produced files in that order, gives N pages in the
\* original order.
C5_RoundTrip ==
  (/\ pc = "idle" /\ done = 2 /\ req.op = "merge"
   /\ SplitPageNumbers = [i \in 1..PageCount(SplitSourcePath) |-> i])
    => /\ result.kind # "CorruptedPdf"
       /\ result.ok =>
            /\ result.total_pages = PageCount(SplitSourcePath)
            /\ [i \in 1..Len(saved[Len(saved)].copied) |-> saved[Len(saved)].copied[i].body]
                 = [i \in 1..PageCount(SplitSourcePath) |-> PagesOfFile(SplitSourcePath)[i].body]

PairwiseDisjoint(rs) ==
  \A i, j \in 1..Len(rs) : i < j => (rs[i].end < rs[j].start \/ rs[j].end < rs[i].start)

\* The ranges of the request taken one by one, before the overlap check.
ItemsOfRequest ==
  IF req.op = "parse_ranges" THEN parse_parts(comma_parts(req.text))
  ELSE parse_json_items(req.items)

\* C6: a list of individually valid ranges is accepted exactly when the
\* ranges are pairwise disjoint as inclusive intervals, whatever their order.
C6_AcceptedIffDisjoint ==
  (/\ done = 1
   /\ req.op = "parse_ranges" => comma_parts(req.text) # <<>>
   /\ ItemsOfRequest.ok)
    => (result.ok <=> PairwiseDisjoint(ItemsOfRequest.ranges))

C6_Witness ==
  /\ done = 1
  /\ req.text = <<"5", "-", "7", ",", "1", "-", "3">>
  /\ result.ok
  /\ result.ranges = <<[start |-> 5, end |-> 7], [start |-> 1, end |-> 3]>>

\* The tokens of a text: the stretches between commas, without the blanks
\* around them, the empty ones left out.
RECURSIVE SortedSeq(_)
SortedSeq(S) ==
  IF S = {} THEN <<>>
  ELSE LET m == CHOOSE x \in S : \A y \in S : x <= y IN <<m>> \o SortedSeq(S \ {m})

Strip(t) ==
  LET keep == {i \in 1..Len(t) : t[i] # " "}
  IN IF keep = {} THEN <<>>
     ELSE SubSeq(t, CHOOSE i \in keep : \A j \in keep : i <= j,
                    CHOOSE i \in keep : \A j \in keep : j <= i)

Tokens(text) ==
  LET cuts == SortedSeq({0, Len(text) + 1} \cup {i \in 1..Len(text) : text[i] = ","})
  IN SelectSeq([k \in 1..(Len(cuts) - 1) |-> Strip(SubSeq(text, cuts[k] + 1, cuts[k + 1] - 1))],
               LAMBDA t : t # <<>>)

AllDigits(t) == t # <<>> /\ \A i \in 1..Len(t) : t[i] \in Digits

\* C7: an accepted text gives one PageRange per non-empty token, in input
\* order: token N gives {N,N}, token N-M gives {N,M}; "1-3,5,7-10" gives
\* [{1,3},{5,5},{7,10}].
C7_OneRangePerTokenInOrder ==
  (done = 1 /\ req.op = "parse_ranges" /\ result.ok)
    => /\ Len(result.ranges) = Len(Tokens(req.text))
       /\ \A i \in 1..Len(Tokens(req.text)) :
            LET t == Tokens(req.text)[i] IN
            /\ AllDigits(t)
                 => result.ranges[i] = [start |-> DecValue(t), end |-> DecValue(t)]
            /\ \A k \in 1..Len(t) :
                 (t[k] = "-" /\ AllDigits(SubSeq(t, 1, k - 1)) /\ AllDigits(SubSeq(t, k + 1, Len(t))))
                   => result.ranges[i] = [start |-> DecValue(SubSeq(t, 1, k - 1)),
                                          end |-> DecValue(SubSeq(t, k + 1, Len(t)))]
       /\ req.text = <<"1", "-", "3", ",", "5", ",", "7", "-", "1", "0">>
            => result.ranges = <<[start |-> 1, end |-> 3], [start |-> 5, end |-> 5],
                                 [start |-> 7, end |-> 10]>>

C7_Witness ==
  /\ done = 1
  /\ req.text = <<"1", "-", "3", ",", "5", ",", "7", "-", "1", "0">>
  /\ result.ok
  /\ Len(result.ranges) = 3

\* Some range of the split request lies beyond the pages of the loaded
\* document.
OutOfBounds ==
  \E i \in 1..Len(req.page_ranges) :
    \/ req.page_ranges[i].start > Len(GetPages(doc))
    \/ req.page_ranges[i].end > Len(GetPages(doc))

\* C8: split_pdf rejects a request with a range beyond the N pages of the
\* document before it creates a directory or a file; with all ranges inside
\* 1..N the bounds check passes.
C8_BoundsBeforeOutput ==
  [][ /\ pc = "s_load" => (fs' = fs /\ dirs' = dirs /\ saved' = saved)
      /\ (pc = "s_validate" /\ OutOfBounds)
           => /\ pc' = "idle"
              /\ ~result'.ok
              /\ result'.code = "VALIDATION_ERROR"
              /\ fs' = fs /\ dirs' = dirs /\ saved' = saved
      /\ (pc = "s_validate" /\ ~OutOfBounds)
           => /\ result'.detail \notin {"start_exceeds_total", "end_exceeds_total"}
              /\ (req.page_ranges # <<>> /\ validate_file(fs, req.file_path).ok) => pc' = "s_range"
    ]_vars

C8_Witness ==
  /\ pc = "idle"
  /\ done = 1
  /\ req.op = "split"
  /\ req.create_output_dir
  /\ req.page_ranges = <<[start |-> MaxPages + 1, end |-> MaxPages + 1]>>
  /\ result.detail = "start_exceeds_total"
  /\ OutDir \notin dirs
  /\ \A p \in DOMAIN fs : p[1] = "in"

IsPermutation(o, n) == Len(o) = n /\ Range(o) = 0..(n - 1)

\* C9: MergeRequest::validate accepts a present page_order only if it is a
\* permutation of 0..files.len()-1, accepts every permutation over files that
\* pass file validation, rejects every other page_order with a Validation
\* error, and rejects an empty file list with a Validation error.
C9_PageOrderPermutation ==
  done = 1 =>
    /\ req.files = <<>> => (~result.ok /\ result.code = "VALIDATION_ERROR")
    /\ (req.page_order.some /\ result.ok) => IsPermutation(req.page_order.order, Len(req.files))
    /\ (/\ req.files # <<>>
        /\ validate_files(fs, req.files).ok
        /\ req.page_order.some
        /\ IsPermutation(req.page_order.order, Len(req.files))) => result.ok
    /\ (req.page_order.some /\ ~IsPermutation(req.page_order.order, Len(req.files)))
         => (~result.ok /\ result.code = "VALIDATION_ERROR")

\* A token the parser has to refuse: a character other than a digit and the
\* separator, more than one separator, or a page number below 1.
BadToken(t) ==
  \/ \E i \in 1..Len(t) : t[i] \notin Digits \cup {"-"}
  \/ Cardinality({i \in 1..Len(t) : t[i] = "-"}) > 1
  \/ \E k \in 0..(Len(t) + 1) :
       /\ k \in 1..Len(t) => t[k] = "-"
       /\ \/ (k > 1 /\ AllDigits(SubSeq(t, 1, k - 1)) /\ DecValue(SubSeq(t, 1, k - 1)) < 1)
          \/ (k < Len(t) /\ AllDigits(SubSeq(t, k + 1, Len(t)))
              /\ DecValue(SubSeq(t, k + 1, Len(t))) < 1)

\* C10: a text with a token that holds a character other than decimal digits
\* and one '-' separator, or that denotes a page number below 1, is never
\* turned into page ranges.
C10_RejectsNonDigitTokens ==
  (/\ done = 1
   /\ req.op = "parse_ranges"
   /\ \E i \in 1..Len(Tokens(req.text)) : BadToken(Tokens(req.text)[i]))
    => ~result.ok

\* The rejections of a range: a malformed token or item, a page below 1, an
\* end below the start, an overlap.
RangeRejections ==
  {"invalid_page_number", "invalid_start_page", "invalid_end_page", "invalid_format",
   "invalid_range_format", "page_lt_1", "end_lt_start", "overlap"}

\* C11: every rejection of a range by the parser (malformed token, page < 1,
\* end < start, overlap) carries the error kind InvalidPageRange, not the
\* general InvalidInput kind of request-shape problems.
C11_RangeRejectionKind ==
  (done = 1 /\ ~result.ok /\ result.detail \in RangeRejections)
    => result.kind = "InvalidPageRange"

(***************************************************************************)
(* SpecJson: MergeRequest::from_value applied to bounded JSON objects.  A  *)
(* serde_json value is [type, items]: "absent" for a member the object     *)
(* does not have, "string" with the path as items, "number" with <<n>> (a  *)
(* negative n for a number as_u64 refuses), "array" with the elements,     *)
(* "object" with <<preserve_metadata, optimize_size>> for a config that    *)
(* deserializes, "bool" for a value of no use to any member.               *)
(***************************************************************************)
JsonAbsent == [type |-> "absent", items |-> <<>>]

JsonBool == [type |-> "bool", items |-> <<>>]

JsonString(path) == [type |-> "string", items |-> path]

JsonNumber(n) == [type |-> "number", items |-> <<n>>]

JsonArray(items) == [type |-> "array", items |-> items]

JsonConfig(pm, os) == [type |-> "object", items |-> <<pm, os>>]

FromValueOk(r) == [ok |-> TRUE, code |-> "OK", kind |-> "Ok", detail |-> "ok", request |-> r]

FromValueErr(msg) == [ok |-> FALSE, code |-> "VALIDATION_ERROR", kind |-> "InvalidInput",
                      detail |-> msg, request |-> NoRequest]

\* The page_order member: an array whose elements all pass as_u64, else None.
page_order_of(v) ==
  IF v.type = "array"
     /\ \A i \in 1..Len(v.items) : v.items[i].type = "number" /\ v.items[i].items[1] >= 0
    THEN SomeOrder([i \in 1..Len(v.items) |-> v.items[i].items[1]])
    ELSE NoOrder

\* MergeRequest::from_value
MergeRequest_from_value(data) ==
  IF data.files.type # "array" THEN FromValueErr("missing_files")
  ELSE IF \E i \in 1..Len(data.files.items) : data.files.items[i].type # "string"
    THEN FromValueErr("invalid_file_path")
  ELSE IF data.output.type # "string" THEN FromValueErr("missing_output")
  ELSE IF data.config.type \notin {"absent", "object"} THEN FromValueErr("invalid_config")
  ELSE FromValueOk([op |-> "merge",
                    files |-> [i \in 1..Len(data.files.items) |-> data.files.items[i].items],
                    output_path |-> data.output.items,
                    page_order |-> page_order_of(data.page_order),
                    preserve_metadata |-> IF data.config.type = "absent" THEN TRUE
                                          ELSE data.config.items[1],
                    optimize_size |-> IF data.config.type = "absent" THEN FALSE
                                      ELSE data.config.items[2]])

JsonFiles == {JsonAbsent} \cup {JsonArray(a) : a \in SeqsUpTo({JsonString(InPath("a")), JsonString(InPath("b")), JsonBool}, MaxFiles)}

JsonOrders == {JsonAbsent, JsonBool}
              \cup {JsonArray(a) : a \in SeqsUpTo({JsonNumber(n) : n \in (0..MaxFiles) \cup {-1}}, MaxOrderLen)}

JsonConfigs == {JsonAbsent, JsonBool} \cup {JsonConfig(pm, os) : pm \in BOOLEAN, os \in BOOLEAN}

JsonRequests ==
  {[files |-> f, output |-> o, config |-> c, page_order |-> po] :
     f \in JsonFiles, o \in {JsonAbsent, JsonString(MergedPath)}, c \in JsonConfigs,
     po \in JsonOrders}

InitJson ==
  /\ Idle
  /\ fs = [p \in {} |-> Garbage]
  /\ dirs = {}
  /\ req \in {[op |-> "from_value", data |-> d] : d \in JsonRequests}

\* MergeRequest::from_value on the JSON object of the request
MergeFromValue ==
  /\ done = 0
  /\ req.op = "from_value"
  /\ result' = MergeRequest_from_value(req.data)
  /\ done' = 1
  /\ UNCHANGED pureFrame

NextJson == MergeFromValue

SpecJson == InitJson /\ [][NextJson]_vars

\* C12: whenever MergeRequest::from_value returns Ok(request), request.files
\* is not empty and a present page_order has the length of files and only
\* indices below files.len().
C12_FromValueShape ==
  (done = 1 /\ req.op = "from_value" /\ result.ok)
    => /\ result.request.files # <<>>
       /\ result.request.page_order.some
            => /\ Len(result.request.page_order.order) = Len(result.request.files)
               /\ \A i \in 1..Len(result.request.page_order.order) :
                    result.request.page_order.order[i] < Len(result.request.files)

\* The source paths of the request being served.
SourcePaths ==
  IF req.op = "merge" THEN Range(req.files)
  ELSE IF req.op = "split" THEN {req.file_path}
  ELSE {}

\* C13: no step of a merge or of a split changes a source file: every source
\* path holds after the step what it held before it, also when the output
\* path of the merge or of a split range is the path of a source.
C13_SourcesUnchanged ==
  [][ pc # "idle" =>
        \A p \in SourcePaths :
          /\ p \in DOMAIN fs <=> p \in DOMAIN fs'
          /\ p \in DOMAIN fs => fs'[p] = fs[p]
    ]_vars

\* C14: a merge whose source file, at whatever position of the processed
\* order, does not load returns CorruptedPdf with the path of that file at
\* the load step, without a write; no step before the save writes, and the
\* rewrite pass and the save are reached only with every file loadable.
C14_CorruptedAbortsMerge ==
  [][ /\ pc \in {"m_validate", "m_load", "m_copy", "m_rewrite", "m_optimize"}
           => (fs' = fs /\ saved' = saved)
      /\ pc = "m_load" =>
           LET path == files_to_merge[file_index + 1] IN
           /\ fs[path].kind # "pdf" => pc' = "idle"
           /\ pc' = "idle" => /\ ~result'.ok
                              /\ result'.kind = "CorruptedPdf"
                              /\ result'.path = path
                              /\ merged_doc' = NewDocument
                              /\ copied' = <<>>
      /\ pc \in {"m_rewrite", "m_optimize", "m_save"}
           => \A i \in 1..Len(files_to_merge) : fs[files_to_merge[i]].kind = "pdf"
    ]_vars

C14_Witness ==
  /\ pc = "idle"
  /\ req.op = "merge"
  /\ req.files = <<InPath("a"), InPath("c"), InPath("b")>>
  /\ ~req.page_order.some
  /\ fs[InPath("b")].kind = "garbage"
  /\ validate_file(fs, InPath("b")).ok
  /\ result.kind = "CorruptedPdf"
  /\ result.path = InPath("b")
  /\ saved = <<>>
  /\ req.output_path \notin DOMAIN fs

\* Entry e of the save history is still in place: its path holds the
\* document that was serialized.
InPlace(e) ==
  /\ e.path \in DOMAIN fs
  /\ fs[e.path].kind = "pdf"
  /\ fs[e.path].doc = e.doc

\* C15: after a split that returned an error, no output file saved by the
\* call is in place, the files of the ranges before the failing one included.
C15_FailedSplitLeavesNothing ==
  (pc = "idle" /\ req.op = "split" /\ ~result.ok)
    => \A i \in 1..Len(saved) : saved[i].op = "split" => ~InPlace(saved[i])

\* C16: after a merge that returned an error, no file saved by the call is in
\* place at output_path, also when the error comes from the validation of
\* the saved file.
C16_FailedMergeLeavesNothing ==
  (pc = "idle" /\ req.op = "merge" /\ ~result.ok)
    => \A i \in 1..Len(saved) : saved[i].op = "merge" => ~InPlace(saved[i])

\* The pages start..end of a range, ascending.
ExpandRange(r) == [j \in 1..(r.end - r.start + 1) |-> r.start + j - 1]

C18_DistinctOutputPaths ==
  req.op = "split" =>
    /\ \A i, j \in 1..Len(req.page_ranges) :
         i # j => generate_output_path(req, i - 1) # generate_output_path(req, j - 1)
    /\ (pc = "idle" /\ result.ok) => \A i \in 1..Len(SplitSaves) : InPlace(SplitSaves[i])

(***************************************************************************)
(* SpecMeta: PdfValidator::extract_metadata (processors/pdf_validator.rs)  *)
(* on bounded documents.  The request holds the trailer's Info entry, the  *)
(* Title value of the Info dictionary and the object table the References  *)
(* are resolved in; the other Info fields go through the same              *)
(* extract_string.                                                         *)
(***************************************************************************)
MetaIds == 3

\* Depth of recursion the thread's stack holds.
MaxStack == 8

Str(text, utf8) == [kind |-> "String", type |-> "", refs |-> <<>>, body |-> <<text, utf8>>]

None == [some |-> FALSE, text |-> ""]

Some(text) == [some |-> TRUE, text |-> text]

Overflow == [some |-> FALSE, text |-> "stack overflow"]

\* extract_string: a String gives its text when the bytes are UTF-8, a
\* Reference is followed by a recursive call, anything else gives None.  The
\* recursion has no limit of its own; beyond the stack it overflows.
RECURSIVE extract_string(_, _, _)
extract_string(obj, objects, depth) ==
  IF depth > MaxStack THEN Overflow
  ELSE IF obj.kind = "String" THEN IF obj.body[2] THEN Some(obj.body[1]) ELSE None
  ELSE IF obj.kind = "Reference" THEN
    IF obj.refs[1] \in DOMAIN objects
      THEN extract_string(objects[obj.refs[1]], objects, depth + 1)
      ELSE None
  ELSE None

ErrStackOverflow == [ok |-> FALSE, code |-> "ABORT", kind |-> "StackOverflow", detail |-> "extract_string"]

\* extract_metadata, the Info part: the trailer's Info has to be a Reference
\* to a Dictionary; info is "absent", "inline" or "reference".
extract_metadata(info, title, objects) ==
  IF info # "reference" \/ title.kind = "Absent"
    THEN [ok |-> TRUE, code |-> "OK", kind |-> "PdfMetadata", detail |-> "ok", title |-> None]
  ELSE IF extract_string(title, objects, 1) = Overflow THEN ErrStackOverflow
  ELSE [ok |-> TRUE, code |-> "OK", kind |-> "PdfMetadata", detail |-> "ok",
        title |-> extract_string(title, objects, 1)]

\* What extract_metadata can give.  extract_string reads the target of a
\* Reference with Document::get_object: where that is the plain table lookup
\* the outcome is the one above; where get_object dereferences with its own
\* hop limit, a Reference cycle is an Err, the field is None, and no
\* recursion overflows.  The two agree on every value that is not on a cycle.
extract_metadata_outcomes(info, title, objects) ==
  {extract_metadata(info, title, objects)}
    \cup (IF extract_metadata(info, title, objects) = ErrStackOverflow
           THEN {[ok |-> TRUE, code |-> "OK", kind |-> "PdfMetadata", detail |-> "ok", title |-> None]}
           ELSE {})

AbsentField == [kind |-> "Absent", type |-> "", refs |-> <<>>, body |-> <<>>]

MetaValues ==
  {Str("t", TRUE), Str("t", FALSE), Dict("Other", <<>>, <<>>)}
    \cup {Ref(Oid(k)) : k \in 1..(MetaIds + 1)}

MetaTables == [{Oid(k) : k \in 1..MetaIds} -> MetaValues]

InitMeta ==
  /\ Idle
  /\ fs = [p \in {} |-> Garbage]
  /\ dirs = {}
  /\ \E info \in {"absent", "inline", "reference"}, title \in MetaValues \cup {AbsentField},
        objects \in MetaTables :
       req = [op |-> "get_metadata", info |-> info, title |-> title, objects |-> objects]

\* PdfValidator::extract_metadata on the document of the request
ExtractMetadata ==
  /\ done = 0
  /\ req.op = "get_metadata"
  /\ result' \in extract_metadata_outcomes(req.info, req.title, req.objects)
  /\ done' = 1
  /\ UNCHANGED pureFrame

NextMeta == ExtractMetadata

SpecMeta == InitMeta /\ [][NextMeta]_vars

\* The text a field value gives through at most one Reference.
ThroughOneReference(v, objects) ==
  IF v.kind = "String" /\ v.body[2] THEN Some(v.body[1])
  ELSE IF v.kind = "Reference" /\ v.refs[1] \in DOMAIN objects
          /\ objects[v.refs[1]].kind = "String" /\ objects[v.refs[1]].body[2]
    THEN Some(objects[v.refs[1]].body[1])
  ELSE None

\* C19: metadata extraction finishes without error on every document, and
\* reports an Info field exactly when its value is a String or a Reference to
\* a String; a value behind two or more References, or on a Reference cycle,
\* is reported as absent.
C19_MetadataOneHop ==
  (done = 1 /\ req.op = "get_metadata")
    => /\ result.ok
       /\ req.info = "reference" => result.title = ThroughOneReference(req.title, req.objects)

\* C20: a merge request whose page_order is no permutation of the file
\* indices is rejected with a Validation error that does not depend on the
\* files: the error of the request's shape, whatever the file system holds.
C20_PageOrderBeforeFiles ==
  (/\ done = 1
   /\ req.op = "validate"
   /\ req.page_order.some
   /\ ~IsPermutation(req.page_order.order, Len(req.files)))
    => /\ ~result.ok
       /\ result.code = "VALIDATION_ERROR"
       /\ result.kind = "InvalidInput"
       /\ result.detail \in {"empty_file_list", "order_length", "order_index", "order_duplicate"}

\* Table t2 is table t1 with one more key, of generation 0, and the objects
\* of t1 as they were.
AddsFreshKey(t1, t2) ==
  /\ DOMAIN t1 \subseteq DOMAIN t2
  /\ Cardinality(DOMAIN t2) = Cardinality(DOMAIN t1) + 1
  /\ \A id \in DOMAIN t2 \ DOMAIN t1 : id[2] = 0
  /\ \A id \in DOMAIN t1 : t2[id] = t1[id]

\* C21: every copy of a page, in a merge and in a split, inserts the page
\* under an ObjectId of generation 0 that is no key of the destination table
\* at that moment, and leaves the objects already in the table as they are.
C21_FreshDestinationIds ==
  [][ /\ (pc = "m_copy" /\ pc' # "idle")
           => AddsFreshKey(merged_doc.objects, merged_doc'.objects)
      /\ (pc = "s_copy" /\ pc' # "idle")
           => AddsFreshKey(split_doc.objects, split_doc'.objects)
    ]_vars

C21_Witness ==
  /\ pc = "m_rewrite"
  /\ Len(req.files) = 2
  /\ Len(copied) = 2 * MaxPages
  /\ copied[1].src = copied[MaxPages + 1].src
  /\ copied[1].dst # copied[MaxPages + 1].dst
  /\ Cardinality(DOMAIN merged_doc.objects) = 2 * MaxPages

(***************************************************************************)
(* SpecRewrite: update_object_references applied to bounded destination    *)
(* tables and remap tables.                                                *)
(***************************************************************************)
RewriteIds == 2

\* Objects of a destination table: a Reference, or a dictionary with at most
\* one nested Reference; targets are table keys, source ids, or neither.
RewriteTargets == {Oid(k) : k \in 1..(RewriteIds + 2)}

RewriteObjects ==
  {Ref(t) : t \in RewriteTargets}
    \cup {Dict("Page", refs, <<>>) : refs \in SeqsUpTo(RewriteTargets, 1)}

RewriteTables == [{Oid(k) : k \in 1..RewriteIds} -> RewriteObjects]

\* Remap tables: source ids mapped to keys of the destination.
RemapTables ==
  UNION {[D -> {Oid(k) : k \in 1..RewriteIds}] : D \in SUBSET {Oid(k) : k \in 2..(RewriteIds + 2)}}

InitRewrite ==
  /\ Idle
  /\ fs = [p \in {} |-> Garbage]
  /\ dirs = {}
  /\ \E t \in RewriteTables, m \in RemapTables :
       req = [op |-> "rewrite", objects |-> t, id_mapping |-> m]

\* update_object_references on the table of the request
UpdateObjectReferences ==
  /\ done = 0
  /\ req.op = "rewrite"
  /\ \E t \in update_object_references_outcomes(req.objects, req.id_mapping) :
       result' = [ok |-> TRUE, code |-> "OK", kind |-> "Ok", detail |-> "ok", objects |-> t]
  /\ done' = 1
  /\ UNCHANGED pureFrame

NextRewrite == UpdateObjectReferences

SpecRewrite == InitRewrite /\ [][NextRewrite]_vars

\* An object with every Reference to a remapped target replaced.
Remapped(obj, m) ==
  [obj EXCEPT !.refs = [i \in 1..Len(obj.refs) |->
                          IF obj.refs[i] \in DOMAIN m THEN m[obj.refs[i]] ELSE obj.refs[i]]]

\* C22: after the reference-rewrite pass every Reference of the table whose
\* target is a key of the remap table, be it the whole object or nested in a
\* dictionary, names the mapped id, and everything else is as before.
C22_RewriteEveryReference ==
  (done = 1 /\ req.op = "rewrite")
    => result.objects = [id \in DOMAIN req.objects |-> Remapped(req.objects[id], req.id_mapping)]

\* C23: the remap table used by the rewrite pass maps the source id of every
\* copied page to the destination id that page was given, also when several
\* sources of a merge use the same ObjectId; the table of a split range holds
\* the pages of that range and nothing else.
C23_RemapTableScoped ==
  /\ pc = "m_rewrite"
       => \A i \in 1..Len(copied) :
            /\ copied[i].src \in DOMAIN object_id_mapping
            /\ object_id_mapping[copied[i].src] = copied[i].dst
  /\ pc = "s_rewrite"
       => /\ DOMAIN object_id_map = {copied[i].src : i \in 1..Len(copied)}
          /\ \A i \in 1..Len(copied) : object_id_map[copied[i].src] = copied[i].dst
          /\ \A i \in 1..Len(copied) : copied[i].file = range_index

MergeSaves == SelectSeq(saved, LAMBDA e : e.op = "merge")

\* C24: a destination document is serialized once, at the end of its copy.
\* The save history grows only at the save step and by one entry; the save
\* of a merge is reached from the rewrite pass (or the optimization after
\* it), with every file loaded and every page copied, and nothing saved
\* before; the save of a split range is reached from the rewrite pass of the
\* range, with the pages of the range copied and one document saved for each
\* earlier range, and the next range starts after it.
C24_SavedOnceAtEnd ==
  [][ /\ saved' # saved
           => /\ pc \in {"m_save", "s_save"}
              /\ Len(saved') = Len(saved) + 1
              /\ SubSeq(saved', 1, Len(saved)) = saved
      /\ pc' = "m_save" => pc \in {"m_rewrite", "m_optimize"}
      /\ pc' = "s_save" => pc = "s_rewrite"
      /\ pc \in {"m_validate", "m_load", "m_copy", "m_rewrite", "m_optimize", "m_save"}
           => MergeSaves = <<>>
      /\ pc = "m_save"
           => /\ file_index = Len(files_to_merge)
              /\ Len(copied) = Len(ExpectedCopyOrder)
              /\ \A i \in 1..Len(copied) : copied[i].dst \in DOMAIN merged_doc.objects
                                           \/ req.optimize_size
      /\ pc = "m_check" => (Len(MergeSaves) = 1 /\ MergeSaves[1].doc = merged_doc)
      /\ pc \in {"s_range", "s_copy", "s_rewrite", "s_save"} => Len(SplitSaves) = range_index
      /\ pc = "s_save"
           => /\ [j \in 1..Len(copied) |-> copied[j].page] = ExpandRange(req.page_ranges[range_index + 1])
              /\ \A j \in 1..Len(copied) : copied[j].dst \in DOMAIN split_doc.objects
      /\ pc = "s_stat" => (Len(SplitSaves) = range_index + 1
                           /\ SplitSaves[range_index + 1].doc = split_doc)
    ]_vars

C24_Witness ==
  /\ pc = "m_check"
  /\ Len(files_to_merge) = 2
  /\ Len(saved) = 1
  /\ Len(saved[1].copied) = 2 * MaxPages

(***************************************************************************)
(* SpecLoop: process_commands_loop (main.rs) over bounded input streams,   *)
(* with process_command and handle_merge (lib.rs).                         *)
(***************************************************************************)
MaxLines == 2

JsonNull == [type |-> "null", items |-> <<>>]

\* serde_json::to_value of a MergeRequest: the derived Serialize writes the
\* members under the field names of the struct.
MergeRequest_to_value(r) ==
  [files |-> JsonArray([i \in 1..Len(r.files) |-> JsonString(r.files[i])]),
   output_path |-> JsonString(r.output_path),
   config |-> JsonConfig(r.preserve_metadata, r.optimize_size),
   page_order |-> IF r.page_order.some
                    THEN JsonArray([i \in 1..Len(r.page_order.order) |-> JsonNumber(r.page_order.order[i])])
                    ELSE JsonNull]

\* The members from_value asks a JSON value for; a member the value does not
\* have is absent.
JsonMembers(data) ==
  [files |-> IF "files" \in DOMAIN data THEN data.files ELSE JsonAbsent,
   output |-> IF "output" \in DOMAIN data THEN data.output ELSE JsonAbsent,
   config |-> IF "config" \in DOMAIN data THEN data.config ELSE JsonAbsent,
   page_order |-> IF "page_order" \in DOMAIN data THEN data.page_order ELSE JsonAbsent]

\* What the merger gets from handle_merge: from_value on the data, to_value
\* on the request, and from_value again inside processors::pdf_merger::merge_pdfs.
handle_merge_request(data) ==
  IF ~MergeRequest_from_value(JsonMembers(data)).ok
    THEN MergeRequest_from_value(JsonMembers(data))
    ELSE MergeRequest_from_value(
           JsonMembers(MergeRequest_to_value(MergeRequest_from_value(JsonMembers(data)).request)))

\* process_command: "Ok" or "Err".  What the processors return for a request
\* that reaches them depends on the files and is left open.
process_command_outcomes(action, data) ==
  CASE action = "health_check" -> {"Ok"}
    [] action = "merge" -> IF handle_merge_request(data).ok THEN {"Ok", "Err"} ELSE {"Err"}
    [] action \in {"split", "validate", "get_metadata"} -> {"Ok", "Err"}
    [] OTHER -> {"Err"}

IdNone == "none"

\* Response::error with the id left out
Response_error_without_id(id) == [success |-> FALSE, data |-> FALSE, error |-> TRUE, id |-> IdNone]

\* Response::success and Response::error; data and error say which of the
\* two optional members is present.
Response_success(id) == [success |-> TRUE, data |-> TRUE, error |-> FALSE, id |-> id]

Response_error(id) == [success |-> FALSE, data |-> FALSE, error |-> TRUE, id |-> id]

\* Input lines: text that is no JSON, JSON that is no Command, a line the
\* stream fails to deliver, and commands.
Line(kind, action, data, id) == [kind |-> kind, action |-> action, data |-> data, id |-> id]

WellFormedMerge ==
  [files |-> JsonArray(<<JsonString(InPath("a"))>>), output |-> JsonString(MergedPath)]

Lines ==
  {Line(k, "", JsonNull, IdNone) : k \in {"text", "json", "unreadable"}}
    \cup {Line("command", a, d, id) :
            a \in {"merge", "split", "health_check", "bogus"},
            d \in {JsonNull, WellFormedMerge},
            id \in {IdNone, "1", "2"}}

InitLoop ==
  /\ Idle
  /\ fs = [p \in {} |-> Garbage]
  /\ dirs = {}
  /\ req = NoRequest

loopFrame == <<fs, dirs, req, result, done, files_to_merge, file_index, doc, page_pos,
               merged_doc, total_pages, max_object_id, object_id_mapping, range_index,
               split_doc, object_id_map, results, copied, saved>>

\* The stream is given to the process: main calls process_commands_loop.
LoopStart ==
  /\ pc = "idle"
  /\ stdin' \in SeqsUpTo(Lines, MaxLines)
  /\ cursor' = 0
  /\ stdout' = <<>>
  /\ command' = NoCommand
  /\ pc' = "l_read"
  /\ UNCHANGED loopFrame

\* lines.next(): the end of the stream ends the loop, a line that cannot be
\* read returns the error; serde_json::from_str decides between the error
\* response and the command.
LoopRead ==
  /\ pc = "l_read"
  /\ IF cursor = Len(stdin) THEN
       /\ pc' = "l_closed"
       /\ UNCHANGED <<cursor, stdout, command>>
     ELSE IF stdin[cursor + 1].kind = "unreadable" THEN
       /\ pc' = "l_failed"
       /\ UNCHANGED <<cursor, stdout, command>>
     ELSE IF stdin[cursor + 1].kind # "command" THEN
       /\ stdout' = Append(stdout, Response_error(IdNone))
       /\ cursor' = cursor + 1
       /\ pc' = "l_read"
       /\ UNCHANGED command
     ELSE
       /\ command' = [action |-> stdin[cursor + 1].action, data |-> stdin[cursor + 1].data,
                      id |-> stdin[cursor + 1].id, returned |-> ""]
       /\ cursor' = cursor + 1
       /\ pc' = "l_process"
       /\ UNCHANGED stdout
  /\ UNCHANGED <<stdin, loopFrame>>

\* process_command(command.action, command.data).await
LoopProcess ==
  /\ pc = "l_process"
  /\ \E r \in process_command_outcomes(command.action, command.data) :
       command' = [command EXCEPT !.returned = r]
  /\ pc' = "l_respond"
  /\ UNCHANGED <<stdin, cursor, stdout, loopFrame>>

\* The response of the command and its println!.
LoopRespond ==
  /\ pc = "l_respond"
  /\ stdout' = Append(stdout, IF command.returned = "Ok" THEN Response_success(command.id)
                              ELSE Response_error(command.id))
  /\ command' = NoCommand
  /\ pc' = "l_read"
  /\ UNCHANGED <<stdin, cursor, loopFrame>>

NextLoop == LoopStart \/ LoopRead \/ LoopProcess \/ LoopRespond

SpecLoop == InitLoop /\ [][NextLoop]_vars

MergeRequests ==
  {[op |-> "merge", files |-> files, output_path |-> MergedPath, page_order |-> po,
    preserve_metadata |-> pm, optimize_size |-> os] :
     files \in SeqsUpTo({InPath("a"), InPath("b")}, MaxFiles), pm \in BOOLEAN, os \in BOOLEAN,
     po \in {NoOrder, SomeOrder(<<0>>), SomeOrder(<<1, 0>>)}}

\* Data for which MergeRequest::from_value returns Ok.
WellFormedData ==
  {[files |-> JsonArray(f), output |-> JsonString(MergedPath), config |-> c, page_order |-> po] :
     f \in SeqsUpTo({JsonString(InPath("a")), JsonString(InPath("b"))}, MaxFiles),
     c \in {JsonAbsent} \cup {JsonConfig(pm, os) : pm \in BOOLEAN, os \in BOOLEAN},
     po \in {JsonAbsent, JsonArray(<<JsonNumber(0)>>)}}

InitRoundTrip ==
  /\ Idle
  /\ fs = [p \in {} |-> Garbage]
  /\ dirs = {}
  /\ req \in {[op |-> "to_value", request |-> r, data |-> JsonNull] : r \in MergeRequests}
             \cup {[op |-> "handle_merge", request |-> NoRequest, data |-> d] : d \in WellFormedData}

\* MergeRequest::from_value(&serde_json::to_value(r).unwrap())
RoundTrip ==
  /\ done = 0
  /\ req.op = "to_value"
  /\ result' = MergeRequest_from_value(JsonMembers(MergeRequest_to_value(req.request)))
  /\ done' = 1
  /\ UNCHANGED pureFrame

\* handle_merge up to the request processors::pdf_merger::merge_pdfs works on
HandleMerge ==
  /\ done = 0
  /\ req.op = "handle_merge"
  /\ result' = handle_merge_request(req.data)
  /\ done' = 1
  /\ UNCHANGED pureFrame

NextRoundTrip == RoundTrip \/ HandleMerge

SpecRoundTrip == InitRoundTrip /\ [][NextRoundTrip]_vars

\* C29: from_value(to_value(r)) is Ok with the files, output path, config
\* and page_order of r, and handle_merge on well-formed data hands the
\* merger the request that from_value reads from the data.
C29_RequestRoundTrip ==
  /\ (done = 1 /\ req.op = "to_value")
       => (result.ok /\ result.request = req.request)
  /\ (done = 1 /\ req.op = "handle_merge")
       => (result.ok /\ result.request = MergeRequest_from_value(req.data).request)

(***************************************************************************)
(* SpecLegacy: merge_pdfs of the legacy backend (src/backend/src/pdf_ops/  *)
(* merge.rs) as a function of the input files.                             *)
(***************************************************************************)
MaxBase == 3

\* Input documents: pages base+1..base+n, page tree base+n+1, catalog
\* base+n+2.
LegacyDoc(name, n, base) ==
  [objects |-> [id \in {Oid(k) : k \in (base + 1)..(base + n + 2)} |->
                  IF id = Oid(base + n + 2) THEN Dict("Catalog", <<Oid(base + n + 1)>>, <<>>)
                  ELSE IF id = Oid(base + n + 1)
                    THEN Dict("Pages", [i \in 1..n |-> Oid(base + i)], <<n>>)
                  ELSE Dict("Page", <<Oid(base + n + 1)>>, <<name, id[1] - base>>)],
   trailer |-> [k \in {"Root"} |-> Oid(base + n + 2)],
   max_id |-> base + n + 2]

Missing == [kind |-> "missing", doc |-> NewDocument, big |-> FALSE]

LegacyOk(d) == [ok |-> TRUE, code |-> "OK", kind |-> "Ok", detail |-> "ok", doc |-> d]

LegacyErr(msg) == [ok |-> FALSE, code |-> "ERROR", kind |-> "Box<dyn Error>", detail |-> msg,
                   doc |-> NewDocument]

\* result_doc.objects.insert(page_id, page_obj.clone()) for the pages of one
\* document
RECURSIVE insert_pages(_, _, _)
insert_pages(objects, d, page_ids) ==
  IF page_ids = <<>> THEN objects
  ELSE insert_pages(Insert(objects, Head(page_ids), d.objects[Head(page_ids)]), d, Tail(page_ids))

\* The file loop: the pages of every input, inserted under their own ids.
RECURSIVE insert_documents(_, _)
insert_documents(objects, inputs) ==
  IF inputs = <<>> THEN objects
  ELSE insert_documents(insert_pages(objects, Head(inputs).doc, GetPages(Head(inputs).doc)),
                        Tail(inputs))

\* Iteration of the BTreeMap of objects: the ids in increasing order.
RECURSIVE SortedIds(_)
SortedIds(S) ==
  IF S = {} THEN <<>>
  ELSE LET m == CHOOSE x \in S : \A y \in S : x[1] <= y[1]
       IN <<m>> \o SortedIds(S \ {m})

\* Document::add_object: the next number after max_id.
add_object(d, obj) ==
  [d EXCEPT !.max_id = d.max_id + 1, !.objects = Insert(d.objects, Oid(d.max_id + 1), obj)]

\* merge_pdfs (legacy): Ok with the document that is saved, or the error.
legacy_merge_pdfs(inputs) ==
  IF inputs = <<>> THEN LegacyErr("no_files")
  ELSE IF \E i \in 1..Len(inputs) : inputs[i].kind = "missing" THEN LegacyErr("not_found")
  ELSE IF \E i \in 1..Len(inputs) : inputs[i].kind # "pdf" THEN LegacyErr("load")
  ELSE LET objects == insert_documents(EmptyTable, inputs)
           pages == SortedIds({id \in DOMAIN objects : objects[id].type = "Page"})
           with_pages == add_object([NewDocument EXCEPT !.objects = objects],
                                    Dict("Pages", pages, <<Len(pages)>>))
           with_catalog == add_object(with_pages, Dict("Catalog", <<Oid(with_pages.max_id)>>, <<>>))
       IN LegacyOk([with_catalog EXCEPT
                      !.trailer = TrailerSet(with_catalog.trailer, "Root", Oid(with_catalog.max_id))])

LegacyFiles ==
  {Missing, Garbage}
    \cup {PdfFile(LegacyDoc(name, n, base), FALSE) :
            name \in {"a"}, n \in 1..MaxPages, base \in 0..MaxBase}

InitLegacy ==
  /\ Idle
  /\ fs = [p \in {} |-> Garbage]
  /\ dirs = {}
  /\ req \in {[op |-> "legacy_merge", inputs |-> s] : s \in SeqsUpTo(LegacyFiles, MaxFiles)}

\* merge_pdfs(input_paths, output_path) of the legacy backend
LegacyMerge ==
  /\ done = 0
  /\ req.op = "legacy_merge"
  /\ result' = legacy_merge_pdfs(req.inputs)
  /\ done' = 1
  /\ UNCHANGED pureFrame

NextLegacy == LegacyMerge

SpecLegacy == InitLegacy /\ [][NextLegacy]_vars

\* The Pages dictionary of a saved legacy document.
LegacyPages(d) == d.objects[d.objects[d.trailer["Root"]].refs[1]]

\* C26: the Pages dictionary of the document the legacy merge_pdfs saves
\* has one Kids entry per input page and Count equal to the sum of the page
\* counts of the inputs.
C26_LegacyPageCount ==
  (done = 1 /\ req.op = "legacy_merge" /\ result.ok)
    => LET total == Sum([i \in 1..Len(req.inputs) |-> Len(GetPages(req.inputs[i].doc))])
       IN /\ Len(LegacyPages(result.doc).refs) = total
          /\ LegacyPages(result.doc).body = <<total>>

\* C27: in a merged document that was saved, the Info entry of the trailer
\* (copied from the first processed source) is not the id under which a page
\* was copied into the destination.
C27_InfoNotAPage ==
  \A k \in 1..Len(saved) :
    (saved[k].op = "merge" /\ "Info" \in DOMAIN saved[k].doc.trailer)
      => saved[k].doc.trailer["Info"] \notin {saved[k].copied[i].dst : i \in 1..Len(saved[k].copied)}

\* C28: the ranges parse_from_json accepts from the array form have start
\* and end equal to the integers of the request, item by item; an array with
\* a number above u32::MAX is rejected.
C28_JsonRangesAsSupplied ==
  (done = 1 /\ req.op = "parse_from_json" /\ result.ok)
    => /\ Len(result.ranges) = Len(req.items)
       /\ \A i \in 1..Len(req.items) :
            /\ result.ranges[i].start = req.items[i][1]
            /\ result.ranges[i].end = req.items[i][Len(req.items[i])]
            /\ \A j \in 1..Len(req.items[i]) : req.items[i][j] <= U32Max

\* C30: a merge with optimize_size saves every page it copied: after the
\* save, each destination id of a copied page is in the saved table, and
\* total_pages is the number of page objects saved.
C30_OptimizeKeepsPages ==
  (pc = "m_check" /\ req.optimize_size)
    => /\ \A i \in 1..Len(copied) : copied[i].dst \in DOMAIN saved[Len(saved)].doc.objects
       /\ total_pages = Cardinality(PageObjects(saved[Len(saved)].doc))

====
